---- MODULE Spec2Model ----
(***************************************************************************)
(* A model of the PRD publisher of vulcan-prd-cli: the validator and the   *)
(* naming helpers (validate.ts), the repository reference helpers          *)
(* (publish.ts, git.ts), the registry upsert and the publishPrd            *)
(* orchestration (publish.ts) against the GitHub client (github.ts).       *)
(*                                                                         *)
(* Strings are sequences of atoms.  An atom is a TLA+ string that stands   *)
(* for the characters it spells; the documents and references of the model *)
(* are built from a few atoms ("PRD:", "github.com", ...) so that the      *)
(* regular expressions of the source can be evaluated position by position.*)
(***************************************************************************)
EXTENDS Integers, Sequences, FiniteSets, TLC

(***************************************************************************)
(* Bounds of the model.                                                    *)
(***************************************************************************)
MaxDocLen == 3
MaxItems == 2
MaxClock == 1

SeqsUpTo(S, n) == UNION {[1..k -> S] : k \in 0..n}

(***************************************************************************)
(* String helpers (JavaScript String.prototype).                           *)
(***************************************************************************)
IsSpace(a) == a \in {" ", "\n"}

RECURSIVE TrimLeft(_)
TrimLeft(s) == IF s # <<>> /\ IsSpace(Head(s)) THEN TrimLeft(Tail(s)) ELSE s

RECURSIVE TrimRight(_)
TrimRight(s) ==
  IF s # <<>> /\ IsSpace(s[Len(s)]) THEN TrimRight(SubSeq(s, 1, Len(s) - 1)) ELSE s

Trim(s) == TrimRight(TrimLeft(s))

\* The single characters an atom spells.
Explode(a) == [i \in 1..Len(a) |-> SubSeq(a, i, i)]

RECURSIVE CharsOf(_, _, _)
CharsOf(s, lo, hi) ==
  IF lo > hi THEN <<>>
  ELSE IF lo = hi THEN Explode(s[lo])
  ELSE CharsOf(s, lo, (lo + hi) \div 2) \o CharsOf(s, (lo + hi) \div 2 + 1, hi)

\* The single characters a string spells.
Chars(s) == CharsOf(s, 1, Len(s))

UpperLetters ==
  <<"A", "B", "C", "D", "E", "F", "G", "H", "I", "J", "K", "L", "M",
    "N", "O", "P", "Q", "R", "S", "T", "U", "V", "W", "X", "Y", "Z">>

LowerLetters ==
  <<"a", "b", "c", "d", "e", "f", "g", "h", "i", "j", "k", "l", "m",
    "n", "o", "p", "q", "r", "s", "t", "u", "v", "w", "x", "y", "z">>

Digits == {"0", "1", "2", "3", "4", "5", "6", "7", "8", "9"}

ToLowerChar(c) ==
  IF \E i \in 1..Len(UpperLetters) : UpperLetters[i] = c
  THEN LowerLetters[CHOOSE i \in 1..Len(UpperLetters) : UpperLetters[i] = c]
  ELSE c

ToLowerCase(cs) == [i \in 1..Len(cs) |-> ToLowerChar(cs[i])]

\* [a-z0-9]
IsSlugChar(c) == (\E i \in 1..Len(LowerLetters) : LowerLetters[i] = c) \/ c \in Digits

(***************************************************************************)
(* validate.ts                                                             *)
(***************************************************************************)
\* ^ under the m flag: the start of the input or the position after a newline.
LineStart(c, i) == i = 1 \/ c[i - 1] = "\n"

\* The end of the maximal run of whitespace that starts at position p
\* (p - 1 when there is none).
RECURSIVE SpaceRunEnd(_, _)
SpaceRunEnd(c, p) ==
  IF p <= Len(c) /\ IsSpace(c[p]) THEN SpaceRunEnd(c, p + 1) ELSE p - 1

\* The end of the line that position p is on: the last position before the
\* next newline (p - 1 when p is a newline or past the end).
RECURSIVE LineEnd(_, _)
LineEnd(c, p) ==
  IF p <= Len(c) /\ c[p] # "\n" THEN LineEnd(c, p + 1) ELSE p - 1

\* /^#\s+PRD:/m matched at position i.
PrdTitleAt(c, i) ==
  /\ LineStart(c, i)
  /\ c[i] = "#"
  /\ SpaceRunEnd(c, i + 1) >= i + 1
  /\ SpaceRunEnd(c, i + 1) + 1 <= Len(c)
  /\ c[SpaceRunEnd(c, i + 1) + 1] = "PRD:"

HasPrdTitle(c) == \E i \in 1..Len(c) : PrdTitleAt(c, i)

validatePrdFileNoTitleCheck(file) ==
  IF ~file.exists
  THEN [valid |-> FALSE, errors |-> <<"Failed to read file: ENOENT">>]
  ELSE IF Trim(file.content) = <<>>
  THEN [valid |-> FALSE, errors |-> <<"PRD file is empty">>]
  ELSE [valid |-> TRUE, errors |-> <<>>]

validatePrdFile(file) ==
  IF ~file.exists
  THEN [valid |-> FALSE, errors |-> <<"Failed to read file: ENOENT">>]
  ELSE IF Trim(file.content) = <<>>
  THEN [valid |-> FALSE, errors |-> <<"PRD file is empty">>]
  ELSE IF ~HasPrdTitle(file.content)
  THEN [valid |-> FALSE,
        errors |-> <<"PRD file must start with \"# PRD: <product name>\"">>]
  ELSE [valid |-> TRUE, errors |-> <<>>]

\* content.replace(/<!--[\s\S]*?-->\n\n?/g, ''): the leftmost "<!--", the
\* nearest "-->" followed by a newline after it, one more newline when there
\* is one; then the same on the rest.
CommentCloseAt(c, j) == j + 1 <= Len(c) /\ c[j] = "-->" /\ c[j + 1] = "\n"

CommentOpenAt(c, i) ==
  c[i] = "<!--" /\ \E j \in (i + 1)..Len(c) : CommentCloseAt(c, j)

RECURSIVE StripComments(_)
StripComments(c) ==
  IF \E i \in 1..Len(c) : CommentOpenAt(c, i)
  THEN LET i == CHOOSE k \in 1..Len(c) :
                  CommentOpenAt(c, k) /\ \A l \in 1..(k - 1) : ~CommentOpenAt(c, l)
           j == CHOOSE k \in (i + 1)..Len(c) :
                  CommentCloseAt(c, k) /\ \A l \in (i + 1)..(k - 1) : ~CommentCloseAt(c, l)
           e == IF j + 2 <= Len(c) /\ c[j + 2] = "\n" THEN j + 2 ELSE j + 1
       IN  SubSeq(c, 1, i - 1) \o StripComments(SubSeq(c, e + 1, Len(c)))
  ELSE c

\* \s{min,}(.+)$ matched from position p on, greedy with backtracking: the
\* whitespace run gives back characters until (.+) has a character that is
\* not a newline to start on.  The set of numbers of whitespace characters
\* taken for which the rest matches.
CaptureStarts(c, p, min) ==
  {m \in min..(SpaceRunEnd(c, p) - p + 1) : p + m <= Len(c) /\ c[p + m] # "\n"}

Max(S) == CHOOSE m \in S : \A n \in S : n <= m

Capture(c, p, min) ==
  LET m == Max(CaptureStarts(c, p, min))
  IN  SubSeq(c, p + m, LineEnd(c, p + m))

\* /^#\s+PRD:\s*(.+)$/m matched at position i.
PrdNameAt(c, i) ==
  PrdTitleAt(c, i) /\ CaptureStarts(c, SpaceRunEnd(c, i + 1) + 2, 0) # {}

\* /^#\s+(.+)$/m matched at position i.
HeadingAt(c, i) ==
  LineStart(c, i) /\ c[i] = "#" /\ CaptureStarts(c, i + 1, 1) # {}

First(S) == CHOOSE i \in S : \A j \in S : i <= j

NoName == [found |-> FALSE]

extractProductName(content) ==
  LET c == StripComments(content)
      prd == {i \in 1..Len(c) : PrdNameAt(c, i)}
      any == {i \in 1..Len(c) : HeadingAt(c, i)}
  IN  IF prd # {}
      THEN [found |-> TRUE,
            name |-> Trim(Capture(c, SpaceRunEnd(c, First(prd) + 1) + 2, 0))]
      ELSE IF any # {}
      THEN [found |-> TRUE, name |-> Trim(Capture(c, First(any) + 1, 1))]
      ELSE NoName

\* The place of a character a replace() takes out, and the test that keeps
\* the others.
Dropped == ""
IsKept(c) == c # Dropped

\* replace(/[^a-z0-9]+/g, '-'): every run of other characters becomes one hyphen.
ReplaceNonSlugRuns(cs) ==
  LET marked == [k \in 1..Len(cs) |->
                   IF IsSlugChar(cs[k]) THEN cs[k]
                   ELSE IF k < Len(cs) /\ ~IsSlugChar(cs[k + 1]) THEN Dropped
                   ELSE "-"]
  IN  SelectSeq(marked, IsKept)

\* replace(/^-+|-+$/g, '')
NonHyphens(cs) == {i \in 1..Len(cs) : cs[i] # "-"}

StripLeadingHyphens(cs) ==
  LET kept == NonHyphens(cs)
  IN  IF kept = {} THEN <<>>
      ELSE SubSeq(cs, First(kept), Len(cs))

StripTrailingHyphens(cs) ==
  LET kept == NonHyphens(cs)
  IN  IF kept = {} THEN <<>>
      ELSE SubSeq(cs, 1, Max(kept))

\* replace(/-+/g, '-')
CollapseHyphens(cs) ==
  LET marked == [k \in 1..Len(cs) |->
                   IF cs[k] = "-" /\ k < Len(cs) /\ cs[k + 1] = "-" THEN Dropped
                   ELSE cs[k]]
  IN  SelectSeq(marked, IsKept)

MaxSlugLen == 100

\* substring(0, n)
Substring0(cs, n) == SubSeq(cs, 1, IF n < Len(cs) THEN n ELSE Len(cs))

DefaultSlug == Explode("data-product-prd")

sanitizeFilename(name) ==
  LET s == Substring0(CollapseHyphens(StripTrailingHyphens(StripLeadingHyphens(
               ReplaceNonSlugRuns(ToLowerCase(Chars(name)))))), MaxSlugLen)
  IN  IF s = <<>> THEN DefaultSlug ELSE s

(***************************************************************************)
(* publish.ts, git.ts: repository references                               *)
(***************************************************************************)
IndexOf(s, a) == First({i \in 1..Len(s) : s[i] = a})

\* replace(/\.git$/, '')
StripDotGit(s) ==
  IF s # <<>> /\ s[Len(s)] = ".git" THEN SubSeq(s, 1, Len(s) - 1) ELSE s

\* The end of the maximal run of atoms other than "/" that starts at p
\* (p - 1 when there is none): [^\/]+
RECURSIVE SegmentEnd(_, _)
SegmentEnd(s, p) ==
  IF p <= Len(s) /\ s[p] # "/" THEN SegmentEnd(s, p + 1) ELSE p - 1

\* repo.includes('github.com/')
IncludesGithub(s) == \E i \in 1..(Len(s) - 1) : s[i] = "github.com" /\ s[i + 1] = "/"

\* /github\.com\/([^\/]+)\/([^\/]+)/ matched at position i.
GithubUrlAt(s, i) ==
  /\ i + 1 <= Len(s)
  /\ s[i] = "github.com"
  /\ s[i + 1] = "/"
  /\ SegmentEnd(s, i + 2) >= i + 2
  /\ SegmentEnd(s, i + 2) + 1 <= Len(s)
  /\ SegmentEnd(s, SegmentEnd(s, i + 2) + 2) >= SegmentEnd(s, i + 2) + 2

\* split('/'): the parts between the slashes.
RECURSIVE Split(_)
Split(s) ==
  IF \E i \in 1..Len(s) : s[i] = "/"
  THEN <<SubSeq(s, 1, IndexOf(s, "/") - 1)>>
         \o Split(SubSeq(s, IndexOf(s, "/") + 1, Len(s)))
  ELSE <<s>>

\* The message of the Error thrown at line 49, without the reference it quotes.
InvalidRepoFormat == "Invalid repo format. Use \"owner/repo\" or full GitHub URL"

parseRepo(repo) ==
  LET urls == {i \in 1..Len(repo) : GithubUrlAt(repo, i)}
  IN  IF IncludesGithub(repo) /\ urls # {}
      THEN LET i == First(urls)
               o == SegmentEnd(repo, i + 2)
           IN  [threw |-> FALSE,
                owner |-> SubSeq(repo, i + 2, o),
                repo |-> StripDotGit(SubSeq(repo, o + 2, SegmentEnd(repo, o + 2)))]
      ELSE IF \E i \in 1..Len(repo) : repo[i] = "/"
      THEN [threw |-> FALSE,
            owner |-> Split(repo)[1],
            repo |-> StripDotGit(Split(repo)[2])]
      ELSE [threw |-> TRUE, message |-> InvalidRepoFormat]

NoRemote == [found |-> FALSE]

StartsWith(s, prefix) ==
  Len(s) >= Len(prefix) /\ SubSeq(s, 1, Len(prefix)) = prefix

\* /git@github\.com:([^/]+)\/(.+?)(\.git)?$/ matched at position i: the owner
\* is the run up to the next slash, the repository the rest of the input (no
\* newline in it) without one trailing ".git", unless ".git" is all of it.
SshRemoteAt(s, i) ==
  /\ i + 2 <= Len(s)
  /\ s[i] = "git@" /\ s[i + 1] = "github.com" /\ s[i + 2] = ":"
  /\ SegmentEnd(s, i + 3) >= i + 3
  /\ SegmentEnd(s, i + 3) + 2 <= Len(s)
  /\ \A k \in (SegmentEnd(s, i + 3) + 2)..Len(s) : s[k] # "\n"

HttpsPrefix == <<"https:", "/", "/">>

normalizeRepoUrl(remote) ==
  IF ~remote.found \/ remote.url = <<>> THEN NoRemote
  ELSE LET s == remote.url
           ssh == {i \in 1..Len(s) : SshRemoteAt(s, i)}
       IN  IF StartsWith(s, <<"git@">>) /\ ssh # {}
           THEN LET i == First(ssh)
                    o == SegmentEnd(s, i + 3)
                    rest == SubSeq(s, o + 2, Len(s))
                IN  [found |-> TRUE,
                     url |-> HttpsPrefix \o <<"github.com", "/">> \o SubSeq(s, i + 3, o)
                               \o <<"/">>
                               \o (IF Len(rest) >= 2 THEN StripDotGit(rest) ELSE rest)]
           ELSE IF StartsWith(s, HttpsPrefix)
           THEN [found |-> TRUE, url |-> StripDotGit(s)]
           ELSE [found |-> TRUE, url |-> s]

(***************************************************************************)
(* JavaScript values.  An optional field is None (undefined) or Some(v); a *)
(* string is falsy when it is undefined or empty.  An object is a function *)
(* from its field names; spreading b over a keeps a's fields that b lacks. *)
(***************************************************************************)
None == [given |-> FALSE]
Some(v) == [given |-> TRUE, value |-> v]
Truthy(o) == o.given /\ o.value # <<>>
OrElse(o, d) == IF Truthy(o) THEN o.value ELSE d

Spread(a, b) ==
  [f \in DOMAIN a \cup DOMAIN b |-> IF f \in DOMAIN b THEN b[f] ELSE a[f]]

\* new Date(t).toISOString(), t the milliseconds read from the clock.
ISO(t) == <<"2024-01-15T10", ":", "30", ":", "45", ".", "00" \o ToString(t), "Z">>

\* replace(/[:.]/g, '-')
ReplaceColonDot(s) == [i \in 1..Len(s) |-> IF s[i] \in {":", "."} THEN "-" ELSE s[i]]

(***************************************************************************)
(* File contents.  A text file holds a document; a JSON file holds the     *)
(* value JSON.stringify wrote and JSON.parse reads back; JSON.parse throws *)
(* on a text file.  The JSON value null is JsNull.                         *)
(***************************************************************************)
Text(doc) == [kind |-> "text", text |-> doc]
JsNull == [jsnull |-> TRUE]
JSONstringify(v) == [kind |-> "json", value |-> v]
JSONparse(c) ==
  IF c.kind = "json" THEN [threw |-> FALSE, value |-> c.value]
  ELSE [threw |-> TRUE, message |-> "Unexpected token in JSON"]

IsNull(v) == "jsnull" \in DOMAIN v
\* Array.isArray(v.items)
HasItemsArray(v) == "items" \in DOMAIN v

EmptyRegistry == [version |-> "1", items |-> <<>>]

RegistryPath == <<"registry.json">>

PrdPath(domain, name) ==
  <<"prds", "/">> \o domain \o <<"/">> \o sanitizeFilename(name) \o <<".md">>

(***************************************************************************)
(* publish.ts: upsertRegistry.  The call returns a new object, but its     *)
(* items is the array of the registry it was given whenever that registry  *)
(* has one: the assignment and the push change that array in place.  ret   *)
(* is the value returned, arg the argument as it is after the call.  t1    *)
(* and t2 are the two readings of the clock, in order.                     *)
(***************************************************************************)
Matches(it, entry) ==
  it.prd_path = entry.prd_path \/ it.product_name = entry.product_name

FindIndexLast(items, entry) ==
  IF \E i \in 1..Len(items) : Matches(items[i], entry)
  THEN Max({i \in 1..Len(items) : Matches(items[i], entry)})
  ELSE 0

\* findIndex: the first matching position, 0 for none (-1 in the source).
FindIndex(items, entry) ==
  IF \E i \in 1..Len(items) : Matches(items[i], entry)
  THEN First({i \in 1..Len(items) : Matches(items[i], entry)})
  ELSE 0

UpsertItemsKeepsOld(items, entry, t1, t2) ==
  LET idx == FindIndex(items, entry)
  IN  IF idx >= 1
      THEN [items EXCEPT ![idx] =
              Spread(Spread(entry, items[idx]), [updated_at |-> ISO(t1)])]
      ELSE Append(items, Spread(entry, [created_at |-> ISO(t1), updated_at |-> ISO(t2)]))

UpsertItems(items, entry, t1, t2) ==
  LET idx == FindIndex(items, entry)
  IN  IF idx >= 1
      THEN [items EXCEPT ![idx] =
              Spread(Spread(items[idx], entry), [updated_at |-> ISO(t1)])]
      ELSE Append(items, Spread(entry, [created_at |-> ISO(t1), updated_at |-> ISO(t2)]))

upsertRegistry(registry, entry, t1, t2) ==
  IF IsNull(registry)
  THEN [threw |-> TRUE,
        message |-> "Cannot read properties of null (reading 'items')"]
  ELSE LET items == IF HasItemsArray(registry) THEN registry.items ELSE <<>>
           after == UpsertItems(items, entry, t1, t2)
       IN  [threw |-> FALSE,
            ret |-> Spread(registry, [items |-> after]),
            arg |-> IF HasItemsArray(registry)
                    THEN [registry EXCEPT !.items = after]
                    ELSE registry]

\* The number of clock readings upsertRegistry makes.
UpsertReads(registry, entry) ==
  IF IsNull(registry) THEN 0
  ELSE IF FindIndex(IF HasItemsArray(registry) THEN registry.items ELSE <<>>, entry) >= 1
  THEN 1 ELSE 2

\* registry.items.some(...)
ItemsSome(registry, entry) ==
  IF ~HasItemsArray(registry)
  THEN [threw |-> TRUE,
        message |-> "Cannot read properties of undefined (reading 'some')"]
  ELSE [threw |-> FALSE,
        value |-> \E i \in 1..Len(registry.items) : Matches(registry.items[i], entry)]

generateBranchName(domain, productName, t) ==
  <<"prd", "/">> \o domain \o <<"/">> \o sanitizeFilename(productName)
    \o <<"-">> \o ReplaceColonDot(ISO(t))

(***************************************************************************)
(* The inputs of the model.                                                *)
(***************************************************************************)
DocAtoms == {"#", " ", "\n", "PRD:", "x"}

\* Longer documents: a title with a name, a title whose name is blank, a
\* heading without the PRD prefix under a title, and leading comments.
SampleDocs ==
  { <<"#", " ", "PRD:", " ", "x">>,
    <<"#", " ", "PRD:", " ", "\n">>,
    <<"<!--", "x", "-->", "\n", "\n", "#", " ", "PRD:", " ", "x">>,
    <<"<!--", "\n", "#", " ", "PRD:", "x", "-->", "\n">> }

Docs == SeqsUpTo(DocAtoms, MaxDocLen) \cup SampleDocs

Files == {[exists |-> FALSE]} \cup {[exists |-> TRUE, content |-> d] : d \in Docs}

Domain == <<"analytics">>

AcmeUrl == HttpsPrefix \o <<"github.com", "/", "acme", "/", "widgets", ".git">>

DefaultRepo == <<"gnyanee97", "/", "vulcan-prds">>

\* The fields of a request besides the file.  The metadata, the target and
\* the base branch are either all absent or all given.
BareMeta ==
  [ownerTeam |-> None, sourceRepo |-> None, tags |-> None, prdRepo |-> None,
   baseBranch |-> None]

FullMeta ==
  [ownerTeam |-> Some(<<"data">>), sourceRepo |-> Some(AcmeUrl),
   tags |-> Some(<<"t1", "t2">>), prdRepo |-> Some(AcmeUrl),
   baseBranch |-> Some(<<"develop">>)]

Request(meta, name, dryRun) ==
  Spread(meta, [domain |-> Domain, productName |-> name, dryRun |-> dryRun])

\* Every combination of metadata, explicit name (absent or given) and
\* dry-run flag; a request whose explicit name is the empty string; and a
\* request whose target is no repository reference.
Requests ==
  {Request(m, n, d) : m \in {BareMeta, FullMeta}, n \in {None, Some(<<"X">>)}, d \in BOOLEAN}
    \cup {Request(BareMeta, Some(<<>>), d) : d \in BOOLEAN}
    \cup {Request([BareMeta EXCEPT !.prdRepo = Some(<<"not-a-repo-string">>)], None, TRUE)}

\* What `git config --get remote.origin.url` yields: nothing, or an SSH remote.
GitRemotes ==
  { NoRemote,
    [found |-> TRUE, url |-> <<"git@", "github.com", ":", "acme", "/", "src", ".git">>] }

OldStamp == <<"2023-12-31T00", ":", "00", ":", "00", ".", "000", "Z">>

\* Entries a fetched registry may hold: one at the path and with the name of
\* the document's product, one with the explicit name at another path.
PoolEntries ==
  { [product_name |-> <<"x">>, domain |-> Domain, owner_team |-> <<"core">>,
     source_repo |-> <<"old-repo">>, prd_path |-> PrdPath(Domain, <<"x">>),
     tags |-> <<"old">>, created_at |-> OldStamp, updated_at |-> OldStamp],
    [product_name |-> <<"X">>, domain |-> <<"legacy">>, owner_team |-> <<"core">>,
     source_repo |-> <<>>, prd_path |-> PrdPath(<<"legacy">>, <<"X-old">>),
     tags |-> <<>>, created_at |-> OldStamp, updated_at |-> OldStamp,
     notes |-> <<"kept">>] }

\* What registry.json may hold on the base branch: a registry, an object
\* without items, null, text that is no JSON, or nothing at all.
RegistryContents ==
  {JSONstringify([version |-> "1", items |-> its]) : its \in SeqsUpTo(PoolEntries, MaxItems)}
    \cup {JSONstringify([version |-> "1"]), JSONstringify(JsNull), Text(<<"x">>),
          Text(<<>>)}

OldDoc == <<"#", " ", "PRD:", " ", "old">>

NoFiles == [p \in {} |-> Text(<<>>)]

\* The base branch: registry.json when present, and the documents its entries list.
BaseFiles(content) ==
  LET v == IF content.kind = "json" THEN content.value ELSE JsNull
      its == IF ~IsNull(v) /\ HasItemsArray(v) THEN v.items ELSE <<>>
  IN  [p \in {RegistryPath} \cup {its[i].prd_path : i \in 1..Len(its)} |->
         IF p = RegistryPath THEN content ELSE Text(OldDoc)]

BaseStates == {NoFiles} \cup {BaseFiles(c) : c \in RegistryContents}

(***************************************************************************)
(* State.                                                                  *)
(***************************************************************************)
VARIABLES
  fs,       \* the file at options.file: [exists, content]
  clock,    \* the last reading of the system clock (milliseconds)
  remote,   \* the repository on GitHub: base branch, new branches, pull requests
  pc,       \* where publishPrd is
  options,  \* the request, once validation has passed
  local,    \* the local variables of publishPrd assigned so far
  calls,    \* the GitHubClient methods called, in order
  result    \* the PublishResult returned

vars == <<fs, clock, remote, pc, options, local, calls, result>>

Has(f) == f \in DOMAIN local
With(rec) == rec @@ local

\* publishPrd has not settled, has returned a PublishResult, or has raised.
NoResult == [returned |-> FALSE, raised |-> FALSE]
Failure(msg) == [returned |-> TRUE, raised |-> FALSE, success |-> FALSE, error |-> msg]

Return(r) == pc' = "done" /\ result' = r

CatchRethrows(error) ==
  pc' = "done" /\ result' = [returned |-> FALSE, raised |-> TRUE, error |-> error.message]

CatchUnknownError(error) == Return(Failure("Unknown error"))

\* The catch block (lines 242-247) around the whole body.
Catch(error) ==
  Return(Failure(IF error.isError THEN error.message ELSE "Unknown error"))

\* An Error thrown inside the try block (lines 91-242).
Throw(msg) == Catch([isError |-> TRUE, message |-> msg])

Init ==
  /\ fs \in Files
  /\ clock = 0
  /\ remote = [known |-> FALSE, merged |-> FALSE, base |-> NoFiles,
               branches |-> [b \in {} |-> NoFiles], pulls |-> <<>>]
  /\ pc = "validate"
  /\ options = [f \in {} |-> None]
  /\ local = [f \in {} |-> None]
  /\ calls = <<>>
  /\ result = NoResult

(***************************************************************************)
(* github.ts: the client's methods.  Each octokit request either succeeds  *)
(* or is answered with an HTTP error status.                               *)
(***************************************************************************)
HttpError(status) == "HttpError: status " \o status

Ok == "200"

\* getFile (lines 85-111): the content, null for status 404, a permission
\* error for 401 and 403, any other error as it is.
getFile(files, path, status) ==
  IF status = Ok THEN [threw |-> FALSE, value |-> Some(files[path])]
  ELSE IF status = "404" THEN [threw |-> FALSE, value |-> None]
  ELSE IF status \in {"401", "403"}
  THEN [threw |-> TRUE,
        message |-> "Permission denied accessing repository. Original error: "
                      \o HttpError(status)]
  ELSE [threw |-> TRUE, message |-> HttpError(status)]

\* createBranch (lines 116-153): the error of getRef or createRef, reworded
\* for 403 and 404.
createBranchError(status) ==
  IF status = "403"
  THEN "Permission denied: Your GitHub token doesn't have write access. Original error: "
         \o HttpError(status)
  ELSE IF status = "404"
  THEN "Repository not found or not accessible. Original error: " \o HttpError(status)
  ELSE HttpError(status)

\* createOrUpdateFile (lines 158-205): the error of the lookup or of the
\* write, reworded for 403 and 404.
createOrUpdateFileError(status) ==
  IF status \in {"403", "404"}
  THEN "Permission denied: Cannot write to repository. Original error: " \o HttpError(status)
  ELSE HttpError(status)

\* The blob reference createOrUpdateFile looks up first (lines 166-182).
LookupSha(files, path) == IF path \in DOMAIN files THEN Some(files[path]) ELSE None

PutFile(files, path, content) ==
  [p \in DOMAIN files \cup {path} |-> IF p = path THEN content ELSE files[p]]

PullUrl(github, number) ==
  HttpsPrefix \o <<"github.com", "/">> \o github.owner \o <<"/">> \o github.repo
    \o <<"/", "pull", "/", ToString(number)>>

(***************************************************************************)
(* publish.ts: publishPrd, one action for each stretch of code between two *)
(* awaits or returns.                                                      *)
(***************************************************************************)
\* Lines 92-99.  The rest of the request is drawn once validation has
\* passed: validation reads options.file alone, and the request does not
\* change during the call.
Validate ==
  /\ pc = "validate"
  /\ LET v == validatePrdFile(fs)
     IN  IF ~v.valid
         THEN Return(Failure("PRD validation failed: " \o v.errors[1])) /\ UNCHANGED options
         ELSE pc' = "read" /\ options' \in Requests /\ UNCHANGED result
  /\ UNCHANGED <<fs, clock, remote, local, calls>>

NameExtractionFailed ==
  "Could not extract product name from PRD. Provide --name or ensure PRD starts with \"# PRD: <name>\""

Entry(productName, sourceRepo, prdPath) ==
  [product_name |-> productName,
   domain |-> options.domain,
   owner_team |-> OrElse(options.ownerTeam, <<>>),
   source_repo |-> OrElse(sourceRepo, <<>>),
   prd_path |-> prdPath,
   tags |-> IF options.tags.given THEN options.tags.value ELSE <<>>]

ResolveNamePrefersDocument(content) ==
  LET extracted == extractProductName(content)
  IN  IF extracted.found /\ extracted.name # <<>> THEN extracted
      ELSE IF Truthy(options.productName)
      THEN [found |-> TRUE, name |-> options.productName.value]
      ELSE NoName

\* Lines 104-115: the explicit name when it is truthy, else the extracted one.
ResolveName(content) ==
  LET extracted == extractProductName(content)
  IN  IF Truthy(options.productName) THEN [found |-> TRUE, name |-> options.productName.value]
      ELSE IF ~extracted.found \/ extracted.name = <<>> THEN NoName
      ELSE extracted

\* Lines 117-123, gitRemote what getGitRemoteUrl() returns.
ResolveSourceRepo(gitRemote) ==
  IF Truthy(options.sourceRepo) THEN options.sourceRepo
  ELSE LET normalized == normalizeRepoUrl(gitRemote)
       IN  IF normalized.found /\ normalized.url # <<>> THEN Some(normalized.url) ELSE None

\* Lines 101-141: the file is read a second time (it may be gone by then),
\* the name, the source repository, the target repository, the base branch
\* and the path are settled.
Prepare ==
  /\ pc = "read"
  /\ \E f \in {fs, [exists |-> FALSE]}, gitRemote \in GitRemotes :
       /\ fs' = f
       /\ (~f.exists \/ Truthy(options.sourceRepo)) => gitRemote = NoRemote
       /\ IF ~f.exists
          THEN Throw("ENOENT: no such file or directory") /\ UNCHANGED local
          ELSE LET name == ResolveName(f.content)
                   parsed == parseRepo(OrElse(options.prdRepo, DefaultRepo))
               IN  IF ~name.found
                   THEN /\ gitRemote = NoRemote
                        /\ Return(Failure(NameExtractionFailed))
                        /\ UNCHANGED local
                   ELSE IF parsed.threw
                   THEN /\ gitRemote = NoRemote
                        /\ Throw(parsed.message)
                        /\ UNCHANGED local
                   ELSE /\ local' = With(
                             [prdContent |-> f.content,
                              productName |-> name.name,
                              sourceRepo |-> ResolveSourceRepo(gitRemote),
                              github |-> [owner |-> parsed.owner, repo |-> parsed.repo],
                              baseBranch |-> OrElse(options.baseBranch, <<"main">>),
                              prdPath |-> PrdPath(options.domain, name.name)])
                        /\ pc' = "fetch"
                        /\ UNCHANGED result
  /\ UNCHANGED <<clock, remote, options, calls>>

\* Line 144: await github.getFile('registry.json', baseBranch).  The base
\* branch is whatever it is at the time of this first request.
GetRegistry ==
  /\ pc = "fetch"
  /\ calls' = Append(calls, [op |-> "getFile", path |-> RegistryPath,
                             ref |-> local.baseBranch])
  /\ \E answer \in {Ok, "403", "500"}, base \in BaseStates :
       LET status == IF answer = Ok /\ RegistryPath \notin DOMAIN base THEN "404" ELSE answer
           got == getFile(base, RegistryPath, status)
       IN  IF got.threw
           THEN /\ base = NoFiles
                /\ Throw(got.message)
                /\ UNCHANGED <<local, remote>>
           ELSE /\ remote' = [remote EXCEPT !.known = TRUE, !.base = base]
                /\ local' = With([registryContent |-> got.value])
                /\ pc' = "plan"
                /\ UNCHANGED result
  /\ UNCHANGED <<fs, clock, options>>

ParsedRegistryUncaught(registryContent) ==
  IF registryContent.given /\ registryContent.value.kind = "json"
  THEN registryContent.value.value
  ELSE JsNull

\* Lines 145-157: the registry fetched, or a new one when there is none or
\* it is no JSON.
ParsedRegistry(registryContent) ==
  LET truthy == registryContent.given
                  /\ ~(registryContent.value.kind = "text"
                         /\ registryContent.value.text = <<>>)
  IN  IF truthy /\ ~JSONparse(registryContent.value).threw
      THEN JSONparse(registryContent.value).value
      ELSE EmptyRegistry

\* array.filter(Boolean): the empty strings go.
IsTruthyString(line) == line # <<>>
FilterTruthy(lines) == SelectSeq(lines, IsTruthyString)

\* array.join(sep)
Join(parts, sep) ==
  LET joined[k \in 0..Len(parts)] ==
        IF k = 0 THEN <<>>
        ELSE IF k = 1 THEN parts[1]
        ELSE joined[k - 1] \o sep \o parts[k]
  IN  joined[Len(parts)]

\* Line 179.
PrTitle(isUpdate, productName) ==
  <<IF isUpdate THEN "Update PRD: " ELSE "Add PRD: ">> \o productName

\* Lines 180-198.  The code quotes the path and registry.json in the two
\* lines under "Changes"; the quote marks are left out here.
PrBody(isUpdate) ==
  Join(FilterTruthy(<<
    <<IF isUpdate THEN "## Update PRD: " ELSE "## Add PRD: ">> \o local.productName,
    <<>>,
    <<"**Domain:** ">> \o options.domain,
    IF Truthy(options.ownerTeam)
      THEN <<"**Owner Team:** ">> \o options.ownerTeam.value ELSE <<>>,
    IF Truthy(local.sourceRepo)
      THEN <<"**Source Repo:** ">> \o local.sourceRepo.value ELSE <<>>,
    IF options.tags.given /\ Len(options.tags.value) > 0
      THEN <<"**Tags:** ">>
             \o Join([i \in 1..Len(options.tags.value) |-> <<options.tags.value[i]>>],
                     <<", ">>)
      ELSE <<>>,
    <<>>,
    <<IF isUpdate THEN "This PR updates a data product PRD to the central repository."
      ELSE "This PR adds a data product PRD to the central repository.">>,
    <<>>,
    <<"### Changes">>,
    <<IF isUpdate THEN "- Updated PRD file: " ELSE "- Added PRD file: ">> \o local.prdPath,
    <<"- Updated registry.json with PRD metadata">>,
    <<>>,
    <<"### Next Steps">>,
    <<"- Review PRD content">>,
    <<"- Merge PR to add to index">>,
    <<"- PRD will be automatically indexed after merge">> >>), <<"\n">>)

PrdFileUnsanitized(isUpdate) ==
  [path |-> <<"prds", "/">> \o options.domain \o <<"/">> \o local.productName \o <<".md">>,
   content |-> Text(local.prdContent),
   message |-> <<IF isUpdate THEN "Update PRD: " ELSE "Add PRD: ">>
                 \o options.domain \o <<"/">> \o local.productName]

\* Lines 205-209.
PrdFile(isUpdate) ==
  [path |-> local.prdPath,
   content |-> Text(local.prdContent),
   message |-> <<IF isUpdate THEN "Update PRD: " ELSE "Add PRD: ">>
                 \o options.domain \o <<"/">> \o local.productName]

RegistryFile(updatedRegistry) ==
  [path |-> RegistryPath,
   content |-> JSONstringify(updatedRegistry),
   message |-> <<"Update registry for PRD: ">>
                 \o options.domain \o <<"/">> \o local.productName]

PrFilesRegistryFirst(isUpdate, updatedRegistry) ==
  <<RegistryFile(updatedRegistry), PrdFile(isUpdate)>>

\* Lines 204-215.
PrFiles(isUpdate, updatedRegistry) ==
  <<PrdFile(isUpdate), RegistryFile(updatedRegistry)>>

\* Lines 178-216.
PrParams(isUpdate, branchName, updatedRegistry) ==
  [branch |-> branchName,
   title |-> PrTitle(isUpdate, local.productName),
   body |-> PrBody(isUpdate),
   files |-> PrFiles(isUpdate, updatedRegistry)]

DryRunResult == [returned |-> TRUE, raised |-> FALSE, success |-> TRUE, dryRun |-> TRUE]

IsDryRunIgnored == FALSE

\* Line 219.
IsDryRun == options.dryRun

\* Lines 145-224, the code between the answer of getFile and the call of
\* createBranch: the registry is parsed, the entry is upserted, isUpdate is
\* computed from registry.items as the upsert left it, the branch name and
\* the pull request are composed, and a dry run returns.  t1, t2 and t3 are
\* the readings of the clock, in order: upsertRegistry's and the branch's.
Plan ==
  /\ pc = "plan"
  /\ \E t1 \in clock..MaxClock :
       \E t2 \in t1..MaxClock :
         \E t3 \in t2..MaxClock :
           LET registry == ParsedRegistry(local.registryContent)
               entry == Entry(local.productName, local.sourceRepo, local.prdPath)
               reads == UpsertReads(registry, entry)
               up == upsertRegistry(registry, entry, t1, t2)
               isUpdate == ItemsSome(up.arg, entry)
               branchName == generateBranchName(options.domain, local.productName, t3)
           IN  /\ reads = 0 => t1 = clock
               /\ reads <= 1 => t2 = t1
               /\ IF up.threw
                  THEN /\ t3 = t2
                       /\ Throw(up.message)
                       /\ UNCHANGED local
                  ELSE IF isUpdate.threw
                  THEN /\ t3 = t2
                       /\ Throw(isUpdate.message)
                       /\ UNCHANGED local
                  ELSE /\ local' = With(
                            [registry |-> up.arg,
                             entry |-> entry,
                             updatedRegistry |-> up.ret,
                             isUpdate |-> isUpdate.value,
                             branchName |-> branchName,
                             prParams |-> PrParams(isUpdate.value, branchName, up.ret),
                             fileIndex |-> 1])
                       /\ IF IsDryRun
                          THEN Return(DryRunResult)
                          ELSE pc' = "branch" /\ UNCHANGED result
               /\ clock' = t3
  /\ UNCHANGED <<fs, remote, options, calls>>

\* Line 227: await github.createBranch(branchName, baseBranch).  The new
\* branch starts at the tip the base branch has at that time.
CreateBranch ==
  /\ pc = "branch"
  /\ calls' = Append(calls, [op |-> "createBranch", branchName |-> local.branchName,
                             baseBranch |-> local.baseBranch])
  /\ \E status \in {Ok, "404", "422"} :
       IF status = Ok
       THEN /\ remote' = [remote EXCEPT !.branches =
                            [b \in {local.branchName} |-> remote.base]]
            /\ pc' = "files"
            /\ UNCHANGED result
       ELSE Throw(createBranchError(status)) /\ UNCHANGED remote
  /\ clock' \in clock..MaxClock
  /\ UNCHANGED <<fs, options, local>>

\* Lines 229-232: await github.createOrUpdateFile(...) for the next file.
WriteFile ==
  /\ pc = "files"
  /\ LET file == local.prParams.files[local.fileIndex]
         branch == local.branchName
     IN  /\ calls' = Append(calls, [op |-> "createOrUpdateFile", path |-> file.path,
                                    content |-> file.content, message |-> file.message,
                                    branch |-> branch,
                                    sha |-> LookupSha(remote.branches[branch], file.path)])
         /\ \E status \in {Ok, "403", "409"} :
              IF status = Ok
              THEN /\ remote' = [remote EXCEPT !.branches[branch] =
                                   PutFile(@, file.path, file.content)]
                   /\ local' = [local EXCEPT !.fileIndex = @ + 1]
                   /\ pc' = IF local.fileIndex = Len(local.prParams.files)
                            THEN "pr" ELSE "files"
                   /\ UNCHANGED result
              ELSE Throw(createOrUpdateFileError(status)) /\ UNCHANGED <<remote, local>>
  /\ clock' \in clock..MaxClock
  /\ UNCHANGED <<fs, options>>

PullHeadRecomputed == generateBranchName(options.domain, local.productName, clock)

\* Line 235, the third argument: the name kept in branchName.
PullHead == local.branchName

\* Lines 234-241: await github.createPullRequest(...) and the return.
CreatePullRequest ==
  /\ pc = "pr"
  /\ calls' = Append(calls, [op |-> "createPullRequest", title |-> local.prParams.title,
                             body |-> local.prParams.body, head |-> PullHead,
                             base |-> local.baseBranch])
  /\ \E status \in {Ok, "422"} :
       IF status = Ok
       THEN LET number == Len(remote.pulls) + 1
            IN  /\ remote' = [remote EXCEPT !.pulls =
                                Append(@, [number |-> number,
                                           title |-> local.prParams.title,
                                           body |-> local.prParams.body,
                                           head |-> PullHead,
                                           base |-> local.baseBranch])]
                /\ Return([returned |-> TRUE, raised |-> FALSE, success |-> TRUE,
                            prUrl |-> PullUrl(local.github, number),
                            prNumber |-> number])
       ELSE Throw(HttpError(status)) /\ UNCHANGED remote
  /\ clock' \in clock..MaxClock
  /\ UNCHANGED <<fs, options, local>>

\* Another publisher's pull request is merged into the base branch after
\* this publish has read registry.json and before its branch is created: its
\* entry is added to registry.json there.  (Before the read the merge is part
\* of the base branch the read finds; after the branch is created this
\* publish does not look at the base branch again.)
OtherEntry ==
  [product_name |-> <<"other">>, domain |-> Domain, owner_team |-> <<>>,
   source_repo |-> <<>>, prd_path |-> PrdPath(Domain, <<"other">>), tags |-> <<>>,
   created_at |-> OldStamp, updated_at |-> OldStamp]

OtherPublisherMerge ==
  /\ pc = "branch"
  /\ remote.known
  /\ ~remote.merged
  /\ LET old == IF RegistryPath \in DOMAIN remote.base
                THEN remote.base[RegistryPath] ELSE Text(<<>>)
         v == IF old.kind = "json" /\ ~IsNull(old.value) /\ HasItemsArray(old.value)
              THEN old.value ELSE EmptyRegistry
         new == JSONstringify([v EXCEPT !.items = Append(@, OtherEntry)])
     IN  remote' = [remote EXCEPT
                      !.merged = TRUE,
                      !.base = PutFile(PutFile(@, RegistryPath, new),
                                       OtherEntry.prd_path, Text(OldDoc))]
  /\ UNCHANGED <<fs, clock, pc, options, local, calls, result>>

\* One publish against a repository nobody else writes to.
Next ==
  \/ Validate
  \/ Prepare
  \/ GetRegistry
  \/ Plan
  \/ CreateBranch
  \/ WriteFile
  \/ CreatePullRequest

Spec == Init /\ [][Next]_vars

\* One publish while another publisher's entry is merged.
NextShared ==
  \/ Validate
  \/ Prepare
  \/ GetRegistry
  \/ Plan
  \/ CreateBranch
  \/ WriteFile
  \/ CreatePullRequest
  \/ OtherPublisherMerge

SpecShared == Init /\ [][NextShared]_vars

(***************************************************************************)
(* The helpers called on their own.  local holds the argument and, after   *)
(* the call, what the helper returned; the other variables stay as they    *)
(* are at the start.                                                       *)
(***************************************************************************)
HelperInit(start, arguments) ==
  /\ fs = [exists |-> FALSE]
  /\ clock = 0
  /\ remote = [known |-> FALSE, merged |-> FALSE, base |-> NoFiles,
               branches |-> [b \in {} |-> NoFiles], pulls |-> <<>>]
  /\ pc = start
  /\ options = [f \in {} |-> None]
  /\ local \in arguments
  /\ calls = <<>>
  /\ result = NoResult

HelperFrame == UNCHANGED <<fs, clock, remote, options, calls, result>>

\* sanitizeFilename(name), and sanitizeFilename applied to its own result.
\* Names are built from a lower-case letter, an upper-case letter, a digit,
\* a hyphen, a space and a run of 99 letters, so that three atoms can spell
\* more than MaxSlugLen characters.
MaxNameLen == 3

LongRun == "aaaaaaaaaaaaaaaaaaaaaaaaaaaaaaaaaaaaaaaaaaaaaaaaaaaaaaaaaaaaaaaaaaaaaaaaaaaaaaaaaaaaaaaaaaaaaaaaaaa"

NameAtoms == {"a", "B", "7", "-", " ", LongRun}

Names == SeqsUpTo(NameAtoms, MaxNameLen)

SanitizeInit == HelperInit("sanitize", {[name |-> n] : n \in Names})

Sanitize ==
  /\ pc = "sanitize"
  /\ local' = With([slug |-> sanitizeFilename(local.name)])
  /\ pc' = "sanitized"
  /\ HelperFrame

SanitizeAgain ==
  /\ pc = "sanitized"
  /\ local' = With([again |-> sanitizeFilename(local.slug)])
  /\ pc' = "resanitized"
  /\ HelperFrame

SanitizeNext ==
  \/ Sanitize
  \/ SanitizeAgain

SanitizeSpec == SanitizeInit /\ [][SanitizeNext]_vars

\* parseRepo(repo).  References are built from a name, a slash, the host
\* and the ".git" suffix; the longer ones are a full URL and a string
\* without a slash.
MaxRefLen == 6

RefAtoms == {"acme", "/", "github.com", ".git"}

Refs ==
  SeqsUpTo(RefAtoms, MaxRefLen)
    \cup {AcmeUrl, <<"not-a-repo-string">>,
          HttpsPrefix \o <<"github.com", "/", "acme">>}

ParseRepoInit == HelperInit("parse", {[repo |-> r] : r \in Refs})

ParseRepo ==
  /\ pc = "parse"
  /\ local' = With([parsed |-> parseRepo(local.repo)])
  /\ pc' = "parsed"
  /\ HelperFrame

ParseRepoNext ==
  \/ ParseRepo

ParseRepoSpec == ParseRepoInit /\ [][ParseRepoNext]_vars

\* normalizeRepoUrl(remote).  Remotes are nothing, short strings of the
\* atoms, and strings put together from a scheme, a host, a separator, a
\* path and a suffix.
MaxRemoteLen == 3

RemoteAtoms == {"git@", "github.com", ":", "acme", "/", ".git"}

RemoteUrls ==
  SeqsUpTo(RemoteAtoms, MaxRemoteLen)
    \cup {scheme \o host \o sep \o path \o suffix :
            scheme \in {<<"git@">>, HttpsPrefix, <<"ssh:", "/", "/", "git@">>, <<>>},
            host \in {<<"github.com">>, <<"gitlab.com">>},
            sep \in {<<":">>, <<"/">>},
            path \in {<<"acme", "/", "widgets">>, <<"acme">>,
                      <<"acme", "/", "team", "/", "widgets">>},
            suffix \in {<<>>, <<".git">>}}

Remotes == {NoRemote} \cup {[found |-> TRUE, url |-> u] : u \in RemoteUrls}

NormalizeInit == HelperInit("normalize", {[remote |-> r] : r \in Remotes})

Normalize ==
  /\ pc = "normalize"
  /\ local' = With([normalized |-> normalizeRepoUrl(local.remote)])
  /\ pc' = "normalized"
  /\ HelperFrame

NormalizeNext ==
  \/ Normalize

NormalizeSpec == NormalizeInit /\ [][NormalizeNext]_vars

\* upsertRegistry(registry, entry), called up to MaxUpserts times, each
\* time on the registry the call before returned.  The registry at the start
\* has no two entries with the same path and no two with the same name; a
\* candidate has any of the names and any of the paths.
MaxUpserts == 3

UpsertNames == {<<"a">>, <<"b">>}

UpsertPaths == {PrdPath(Domain, <<"a">>), PrdPath(Domain, <<"b">>)}

Candidates ==
  {[product_name |-> n, domain |-> Domain, owner_team |-> <<"data">>,
    source_repo |-> <<>>, prd_path |-> p, tags |-> <<>>] :
     n \in UpsertNames, p \in UpsertPaths}

StoredEntries ==
  {Spread([c EXCEPT !.owner_team = <<"core">>],
          [created_at |-> OldStamp, updated_at |-> OldStamp]) : c \in Candidates}

NoSharedPath(items) ==
  \A i, j \in 1..Len(items) : i # j => items[i].prd_path # items[j].prd_path

NoSharedName(items) ==
  \A i, j \in 1..Len(items) : i # j => items[i].product_name # items[j].product_name

UpsertInit ==
  HelperInit("upsert",
    {[registry |-> [version |-> "1", items |-> its], upserts |-> 0] :
       its \in {x \in SeqsUpTo(StoredEntries, MaxItems) :
                  NoSharedPath(x) /\ NoSharedName(x)}})

Upsert ==
  /\ pc = "upsert"
  /\ local.upserts < MaxUpserts
  /\ \E entry \in Candidates :
       \E t1 \in clock..MaxClock :
         \E t2 \in t1..MaxClock :
           LET up == upsertRegistry(local.registry, entry, t1, t2)
           IN  /\ UpsertReads(local.registry, entry) = 1 => t2 = t1
               /\ local' = [registry |-> up.ret, entry |-> entry,
                            upserts |-> local.upserts + 1]
               /\ clock' = t2
  /\ UNCHANGED <<fs, remote, pc, options, calls, result>>

UpsertNext ==
  \/ Upsert

UpsertSpec == UpsertInit /\ [][UpsertNext]_vars

(***************************************************************************)
(* Properties.                                                             *)
(***************************************************************************)
Done == pc = "done"
Requested == DOMAIN options # {}
Ops == [i \in 1..Len(calls) |-> calls[i].op]
IsPrefix(s, t) == Len(s) <= Len(t) /\ SubSeq(t, 1, Len(s)) = s
Succeeded == Done /\ result.returned /\ result.success
Failed == Done /\ result.returned /\ ~result.success
NoRemoteChange == DOMAIN remote.branches = {} /\ remote.pulls = <<>>

\* The items of the registry as it was fetched, before the upsert.
PreItems ==
  LET r == ParsedRegistry(local.registryContent)
  IN  IF ~IsNull(r) /\ HasItemsArray(r) THEN r.items ELSE <<>>

\* The document is valid and a name resolves for the request.
NameResolves == Requested /\ fs.exists /\ ResolveName(fs.content).found

\* C1 as claimed: every dry run with a valid document and a name that
\* resolves returns success with the dry-run marker and no pull request,
\* having called nothing but the read of registry.json.
C1_DryRunAlwaysSucceeds ==
  (Done /\ NameResolves /\ options.dryRun) =>
    /\ result.returned /\ result.success
    /\ "dryRun" \in DOMAIN result /\ result.dryRun
    /\ "prNumber" \notin DOMAIN result /\ "prUrl" \notin DOMAIN result
    /\ \A i \in 1..Len(calls) : calls[i].op = "getFile"

\* C1, amended: in a dry run the client is asked for nothing but one read of
\* registry.json and nothing changes on the remote; a result of success has
\* the dry-run marker and no pull request number or URL; and the result is
\* success whenever the document is valid, the name resolves, the target
\* reference parses and the read returns no file, unparseable content or a
\* registry with an items array.
C1_DryRun ==
  (Requested /\ options.dryRun) =>
    /\ Len(calls) <= 1
    /\ \A i \in 1..Len(calls) : calls[i].op = "getFile" /\ calls[i].path = RegistryPath
    /\ NoRemoteChange
    /\ Succeeded =>
         /\ "dryRun" \in DOMAIN result /\ result.dryRun
         /\ "prNumber" \notin DOMAIN result /\ "prUrl" \notin DOMAIN result
    /\ ( /\ Done
         /\ NameResolves
         /\ ~parseRepo(OrElse(options.prdRepo, DefaultRepo)).threw
         /\ Has("registryContent")
         /\ ~IsNull(ParsedRegistry(local.registryContent))
         /\ HasItemsArray(ParsedRegistry(local.registryContent)) ) => Succeeded

C1_Witness ==
  /\ Succeeded /\ options.dryRun /\ "dryRun" \in DOMAIN result
  /\ Len(calls) = 1 /\ Has("prParams") /\ PreItems = <<>>

\* C2: the title is "Add PRD: <name>" exactly when the upsert appended an
\* entry, and "Update PRD: <name>" exactly when it replaced one.
C2_TitleAgreesWithUpsert ==
  Has("prParams") =>
    LET appended == Len(local.updatedRegistry.items) = Len(PreItems) + 1
    IN  /\ local.prParams.title = <<"Add PRD: ">> \o local.productName <=> appended
        /\ local.prParams.title = <<"Update PRD: ">> \o local.productName <=> ~appended

\* C3: when an entry matches, the upsert returns as many items in the same
\* order, the others unchanged, the matched one with every field of the
\* candidate, the old created_at and updated_at read from the clock.
C3_UpdateReplacesMatch ==
  [][ (pc = "plan" /\ "updatedRegistry" \in DOMAIN local') =>
        LET pre == PreItems
            e == local'.entry
            idx == FindIndex(pre, e)
            post == local'.updatedRegistry.items
        IN  idx >= 1 =>
              /\ Len(post) = Len(pre)
              /\ \A i \in 1..Len(pre) : i # idx => post[i] = pre[i]
              /\ \A f \in DOMAIN e : post[idx][f] = e[f]
              /\ post[idx].created_at = pre[idx].created_at
              /\ \E t \in clock..clock' : post[idx].updated_at = ISO(t) ]_vars

C3_Witness ==
  /\ Has("updatedRegistry")
  /\ Len(PreItems) = 2
  /\ FindIndex(PreItems, local.entry) = 2
  /\ local.entry.owner_team = <<>>
  /\ PreItems[2].owner_team # <<>>
  /\ local.updatedRegistry.items[2].owner_team = <<>>
  /\ local.updatedRegistry.items[2].created_at = OldStamp

\* C4: when no entry matches, the upsert returns the old items followed by
\* one entry built from the candidate whose created_at equals its updated_at.
C4_InsertStampsEqual ==
  (Has("updatedRegistry") /\ FindIndex(PreItems, local.entry) = 0) =>
    LET post == local.updatedRegistry.items
        last == post[Len(post)]
    IN  /\ Len(post) = Len(PreItems) + 1
        /\ SubSeq(post, 1, Len(PreItems)) = PreItems
        /\ \A f \in DOMAIN local.entry : last[f] = local.entry[f]
        /\ last.created_at = last.updated_at

\* C5: after upsertRegistry the registry it was given is as it was before.
C5_InputNotMutated ==
  Has("registry") => local.registry = ParsedRegistry(local.registryContent)

\* C6: with registry.json absent or unparseable the publish goes on without
\* an error from the registry {version: "1", items: []} and composes the
\* one-item registry the upsert of its entry into an empty registry gives.
NoUsableRegistry ==
  /\ Has("registryContent")
  /\ ~local.registryContent.given \/ local.registryContent.value.kind = "text"

C6_MissingOrCorruptIsEmpty ==
  NoUsableRegistry =>
    /\ Failed => Len(calls) > 1
    /\ pc # "plan" => Has("updatedRegistry")
    /\ Has("updatedRegistry") =>
         /\ Len(local.updatedRegistry.items) = 1
         /\ \E t1 \in 0..clock : \E t2 \in t1..clock :
              local.updatedRegistry = upsertRegistry(EmptyRegistry, local.entry, t1, t2).ret
         /\ local.prParams.files[2].content = JSONstringify(local.updatedRegistry)

C6_Witness ==
  /\ Has("updatedRegistry")
  /\ local.registryContent.given
  /\ local.registryContent.value = Text(<<"x">>)
  /\ Len(local.updatedRegistry.items) = 1
  /\ Succeeded

C6_WitnessAbsent ==
  Has("updatedRegistry") /\ ~local.registryContent.given /\ Succeeded

\* How far publishPrd has come: the statements run in this order, and the
\* loop over the files goes up by one file at a time.
Rank ==
  [validate |-> 0, read |-> 1, fetch |-> 2, plan |-> 3, branch |-> 4, files |-> 5,
   pr |-> 6, done |-> 7]

ErrorMessages ==
  {"PRD validation failed: " \o m :
     m \in {"Failed to read file: ENOENT", "PRD file is empty",
            "PRD file must start with \"# PRD: <product name>\""}}
    \cup {NameExtractionFailed, InvalidRepoFormat, "ENOENT: no such file or directory",
          "Cannot read properties of null (reading 'items')",
          "Cannot read properties of undefined (reading 'some')"}
    \cup {getFile(NoFiles, RegistryPath, st).message : st \in {"401", "403", "500"}}
    \cup {createBranchError(st) : st \in {"403", "404", "422"}}
    \cup {createOrUpdateFileError(st) : st \in {"403", "404", "409"}}
    \cup {HttpError("422")}

\* C7: publishPrd never raises to its caller: every step takes it forward
\* (so it ends), it has ended exactly when it has returned a result, and a
\* result of failure has success false and one error message.
C7_NeverRaises ==
  /\ [](/\ ~result.raised
        /\ Done <=> result.returned
        /\ Failed => /\ DOMAIN result = {"returned", "raised", "success", "error"}
                     /\ result.error \in ErrorMessages)
  /\ [][\/ Rank[pc'] > Rank[pc]
        \/ /\ pc = "files" /\ pc' = "files"
           /\ local'.fileIndex = local.fileIndex + 1
           /\ local'.fileIndex <= Len(local.prParams.files)]_vars

C7_Witness ==
  /\ Failed
  /\ Len(calls) = 4
  /\ calls[4].op = "createOrUpdateFile"
  /\ result.error = createOrUpdateFileError("403")

\* C8: a successful publish that is no dry run has called, after the read of
\* registry.json, createBranch from the base branch, createOrUpdateFile for
\* the document, createOrUpdateFile for registry.json and createPullRequest
\* from the new branch into the base branch, each once and in this order; at
\* every point the calls made are a beginning of that order, the branch
\* exists when a file is written and holds both files when the pull request
\* is asked for.
PublishOrder ==
  <<"getFile", "createBranch", "createOrUpdateFile", "createOrUpdateFile",
    "createPullRequest">>

C8_MutationOrder ==
  /\ IsPrefix(Ops, PublishOrder)
  /\ pc \in {"files", "pr"} => local.branchName \in DOMAIN remote.branches
  /\ Len(calls) >= 3 => calls[3].path = local.prdPath
  /\ Len(calls) >= 4 => calls[4].path = RegistryPath
  /\ pc = "pr" =>
       /\ remote.branches[local.branchName][local.prdPath] = Text(local.prdContent)
       /\ remote.branches[local.branchName][RegistryPath]
            = JSONstringify(local.updatedRegistry)
  /\ (Succeeded /\ ~options.dryRun) =>
       /\ Ops = PublishOrder
       /\ calls[2].branchName = local.branchName
       /\ calls[2].baseBranch = local.baseBranch
       /\ calls[3].branch = local.branchName
       /\ calls[4].branch = local.branchName
       /\ calls[5].head = local.branchName
       /\ calls[5].base = local.baseBranch
       /\ Len(remote.pulls) = 1

C8_Witness ==
  Succeeded /\ ~options.dryRun /\ Ops = PublishOrder /\ Len(remote.pulls) = 1

\* C9: when the document is blank after trimming or has no line of the
\* "# PRD:" title form (or cannot be read), publishPrd returns failure and
\* has made no remote call.
DocumentInvalid ==
  ~fs.exists \/ (\A i \in 1..Len(fs.content) : IsSpace(fs.content[i]))
    \/ ~HasPrdTitle(fs.content)

C9_InvalidFailsFast ==
  DocumentInvalid =>
    /\ pc \in {"validate", "done"}
    /\ calls = <<>>
    /\ NoRemoteChange
    /\ Done => Failed

C9_Witness ==
  /\ Failed /\ fs.exists /\ calls = <<>>
  /\ Trim(fs.content) # <<>>
  /\ ~HasPrdTitle(fs.content)
  /\ extractProductName(fs.content).found

C9_WitnessBlank ==
  Failed /\ fs.exists /\ Len(fs.content) = 2 /\ Trim(fs.content) = <<>>

\* C10: the step that resolves the product name takes the explicit name of
\* the request when there is one (an empty string is none), else the name
\* extracted from the document, and builds the path from it; when neither
\* gives a name publishPrd returns failure without a remote call; the name
\* and the path stay as they are from then on; and the registry entry and
\* the branch are built from that name.
C10_NameResolution ==
  [][ /\ (pc = "read" /\ "productName" \in DOMAIN local') =>
           LET extracted == extractProductName(local'.prdContent)
           IN  /\ local'.prdContent = fs'.content
               /\ Truthy(options.productName) =>
                    local'.productName = options.productName.value
               /\ ~Truthy(options.productName) =>
                    extracted.found /\ local'.productName = extracted.name
               /\ local'.productName # <<>>
               /\ local'.prdPath = PrdPath(options.domain, local'.productName)
      /\ ( /\ pc = "read" /\ fs'.exists /\ ~Truthy(options.productName)
           /\ LET x == extractProductName(fs'.content)
              IN  ~x.found \/ x.name = <<>> ) =>
             /\ pc' = "done" /\ result'.returned /\ ~result'.success
             /\ result'.error = NameExtractionFailed
             /\ calls' = <<>> /\ NoRemoteChange
      /\ Has("productName") =>
           /\ "productName" \in DOMAIN local'
           /\ local'.productName = local.productName
           /\ local'.prdPath = local.prdPath
      /\ (pc = "plan" /\ "entry" \in DOMAIN local') =>
           /\ local'.entry.product_name = local.productName
           /\ local'.entry.prd_path = local.prdPath
           /\ \E t \in clock..clock' :
                local'.branchName
                  = <<"prd", "/">> \o options.domain \o <<"/">>
                      \o sanitizeFilename(local.productName) \o <<"-">>
                      \o ReplaceColonDot(ISO(t)) ]_vars

C10_Witness ==
  /\ Has("entry")
  /\ Truthy(options.productName)
  /\ extractProductName(local.prdContent).found
  /\ extractProductName(local.prdContent).name = <<"x">>
  /\ local.productName = <<"X">>

C10_WitnessExtracted ==
  /\ Has("entry") /\ options.productName = Some(<<>>)
  /\ local.productName = <<"x">>

C10_WitnessNoName ==
  /\ Failed /\ Requested /\ fs.exists /\ ~Truthy(options.productName)
  /\ extractProductName(fs.content).found /\ extractProductName(fs.content).name = <<>>
  /\ result.error = NameExtractionFailed

\* C11: for every name the result of sanitizeFilename has at most
\* MaxSlugLen characters, each a lower-case letter, a digit or a hyphen, with
\* no hyphen at the start, none at the end and no two hyphens in a row.
HasSlugShape(slug) ==
  /\ Len(slug) <= MaxSlugLen
  /\ \A k \in 1..Len(slug) : IsSlugChar(slug[k]) \/ slug[k] = "-"
  /\ slug # <<>> => slug[1] # "-" /\ slug[Len(slug)] # "-"
  /\ \A k \in 1..(Len(slug) - 1) : ~(slug[k] = "-" /\ slug[k + 1] = "-")

C11_SanitizedShape ==
  (pc \in {"sanitized", "resanitized"}) => HasSlugShape(local.slug)

\* C12: for every non-empty name made of lower-case letters, digits and
\* hyphens, sanitizeFilename applied to its own result gives that result.
IsFilenameSafe(name) ==
  name # <<>> /\ \A k \in 1..Len(Chars(name)) :
                    IsSlugChar(Chars(name)[k]) \/ Chars(name)[k] = "-"

C12_SanitizeIdempotent ==
  (pc = "resanitized" /\ IsFilenameSafe(local.name)) => local.again = local.slug

\* C13: parseRepo returns the owner and the repository (one trailing
\* ".git" removed) of a URL that contains github.com/{owner}/{repo} and of
\* the shorthand owner/repo, and throws the invalid-format error for every
\* other reference: one without a slash, one with more slashes that is no
\* such URL, one whose owner or repository is empty.
IsGithubUrl(ref) == \E i \in 1..Len(ref) : GithubUrlAt(ref, i)

IsShorthand(ref) ==
  /\ Cardinality({i \in 1..Len(ref) : ref[i] = "/"}) = 1
  /\ ref[1] # "/"
  /\ ref[Len(ref)] # "/"
  /\ StripDotGit(SubSeq(ref, IndexOf(ref, "/") + 1, Len(ref))) # <<>>

C13_ParseRepoShapes ==
  (pc = "parsed") =>
    LET ref == local.repo
        got == local.parsed
    IN  IF IsGithubUrl(ref)
        THEN LET i == First({k \in 1..Len(ref) : GithubUrlAt(ref, k)})
                 o == SegmentEnd(ref, i + 2)
             IN  /\ ~got.threw
                 /\ got.owner = SubSeq(ref, i + 2, o)
                 /\ got.repo = StripDotGit(SubSeq(ref, o + 2, SegmentEnd(ref, o + 2)))
        ELSE IF IsShorthand(ref)
        THEN /\ ~got.threw
             /\ got.owner = SubSeq(ref, 1, IndexOf(ref, "/") - 1)
             /\ got.repo = StripDotGit(SubSeq(ref, IndexOf(ref, "/") + 1, Len(ref)))
        ELSE got.threw /\ got.message = InvalidRepoFormat

\* C14: normalizeRepoUrl gives nothing for no input, https://host/owner/repo
\* (without a trailing ".git") for every remote git@host:owner/repo.git,
\* an https:// remote without its trailing ".git", and any other remote as
\* it is.
IsSshRemote(u) ==
  /\ Len(u) >= 6
  /\ u[1] = "git@"
  /\ u[2] \notin {"git@", ":", "/", ".git"}
  /\ u[3] = ":"
  /\ SegmentEnd(u, 4) >= 4
  /\ SegmentEnd(u, 4) + 2 <= Len(u)
  /\ StripDotGit(SubSeq(u, SegmentEnd(u, 4) + 2, Len(u))) # <<>>

C14_NormalizeRemote ==
  (pc = "normalized") =>
    LET r == local.remote
        got == local.normalized
    IN  IF ~r.found \/ r.url = <<>> THEN got = NoRemote
        ELSE IF IsSshRemote(r.url)
        THEN LET o == SegmentEnd(r.url, 4)
             IN  got = [found |-> TRUE,
                        url |-> HttpsPrefix \o <<r.url[2], "/">> \o SubSeq(r.url, 4, o)
                                  \o <<"/">>
                                  \o StripDotGit(SubSeq(r.url, o + 2, Len(r.url)))]
        ELSE IF StartsWith(r.url, HttpsPrefix)
        THEN got = [found |-> TRUE, url |-> StripDotGit(r.url)]
        ELSE got = r

\* C15: from a registry in which no two entries have the same prd_path and
\* no two the same product_name, no sequence of upserts leads to a registry
\* in which two entries have the same prd_path.
C15_PathsStayUnique ==
  (pc = "upsert") => NoSharedPath(local.registry.items)

\* C16: an upsert replaces the first entry, in the order of the items,
\* whose prd_path or product_name is the candidate's, and leaves every
\* other entry as it is, later matching ones included.
C16_FirstMatchWins ==
  [][ (pc = "upsert") =>
        LET pre == local.registry.items
            post == local'.registry.items
            e == local'.entry
            matching == {i \in 1..Len(pre) : Matches(pre[i], e)}
        IN  matching # {} =>
              /\ Len(post) = Len(pre)
              /\ \A f \in DOMAIN e : post[First(matching)][f] = e[f]
              /\ post[First(matching)].created_at = pre[First(matching)].created_at
              /\ \E t \in clock..clock' : post[First(matching)].updated_at = ISO(t)
              /\ \A i \in 1..Len(pre) : i # First(matching) => post[i] = pre[i] ]_vars

C16_Witness ==
  /\ pc = "upsert"
  /\ "entry" \in DOMAIN local
  /\ Len(local.registry.items) = 2
  /\ \A f \in DOMAIN local.entry : local.registry.items[1][f] = local.entry[f]
  /\ Matches(local.registry.items[2], local.entry)
  /\ local.registry.items[2].owner_team = <<"core">>
  /\ local.registry.items[2].updated_at = OldStamp

\* The messages of the errors a method of the client throws.
ThrownBy(op) ==
  IF op = "getFile"
  THEN {getFile(NoFiles, RegistryPath, st).message : st \in {"401", "403", "500"}}
  ELSE IF op = "createBranch" THEN {createBranchError(st) : st \in {"403", "404", "422"}}
  ELSE IF op = "createOrUpdateFile"
  THEN {createOrUpdateFileError(st) : st \in {"403", "404", "409"}}
  ELSE {HttpError("422")}

\* The call of the client that has just been made did not come back.
RemoteStepFails ==
  /\ Len(calls') = Len(calls) + 1
  /\ pc' = "done"
  /\ ~result'.success

\* C17: the step in which a call of the client fails makes that call alone,
\* leaves the branch, the files and the pull requests of the repository as
\* they are and returns failure with the message of the error the client
\* threw; the call that failed is the last one made, the calls before it are
\* a beginning of the publish order, and what they created is still there:
\* the branch once createBranch has come back, the document on it once its
\* write has come back, registry.json on it once its write has come back.
C17_StopsAtFirstFailure ==
  /\ [][RemoteStepFails =>
          /\ remote' = remote
          /\ SubSeq(calls', 1, Len(calls)) = calls
          /\ result' = Failure(result'.error)
          /\ result'.error \in ThrownBy(calls'[Len(calls')].op)]_vars
  /\ [][pc = "done" => calls' = calls /\ remote' = remote /\ result' = result]_vars
  /\ [](Failed /\ Len(calls) >= 1 =>
          /\ IsPrefix(Ops, PublishOrder)
          /\ remote.pulls = <<>>
          /\ Len(calls) <= 2 => DOMAIN remote.branches = {}
          /\ Len(calls) >= 3 => DOMAIN remote.branches = {local.branchName}
          /\ Len(calls) = 3 => remote.branches[local.branchName] = remote.base
          /\ Len(calls) >= 4 =>
               remote.branches[local.branchName][local.prdPath] = Text(local.prdContent)
          /\ Len(calls) = 4 =>
               remote.branches[local.branchName]
                 = PutFile(remote.base, local.prdPath, Text(local.prdContent))
          /\ Len(calls) = 5 =>
               remote.branches[local.branchName][RegistryPath]
                 = JSONstringify(local.updatedRegistry))

C17_Witness ==
  /\ Failed
  /\ Len(calls) = 4
  /\ result.error = HttpError("409")
  /\ local.branchName \in DOMAIN remote.branches
  /\ local.prdPath \in DOMAIN remote.branches[local.branchName]
  /\ RegistryPath \notin DOMAIN remote.branches[local.branchName]

\* C18: the branch name is made in one place, from one reading of the
\* clock, and is not changed afterwards, however far the clock has gone on:
\* it is the branch createBranch is asked for, the branch of both writes,
\* the branch of the pull request's parameters and the head of the pull
\* request; the base branch, settled before the registry is read, is the
\* ref of that read, the branch the new one is created from and the base of
\* the pull request.
C18_OneBranchName ==
  /\ [][/\ ("branchName" \notin DOMAIN local /\ "branchName" \in DOMAIN local') =>
             /\ pc = "plan"
             /\ local'.branchName
                  = generateBranchName(options.domain, local.productName, clock')
        /\ "branchName" \in DOMAIN local =>
             /\ "branchName" \in DOMAIN local'
             /\ local'.branchName = local.branchName
             /\ local'.prParams.branch = local.branchName
        /\ "baseBranch" \in DOMAIN local =>
             /\ "baseBranch" \in DOMAIN local'
             /\ local'.baseBranch = local.baseBranch]_vars
  /\ [](\A i \in 1..Len(calls) :
          /\ calls[i].op = "getFile" => calls[i].ref = local.baseBranch
          /\ calls[i].op = "createBranch" =>
               /\ calls[i].branchName = local.branchName
               /\ calls[i].baseBranch = local.baseBranch
          /\ calls[i].op = "createOrUpdateFile" => calls[i].branch = local.branchName
          /\ calls[i].op = "createPullRequest" =>
               /\ calls[i].head = local.branchName
               /\ calls[i].base = local.baseBranch)
  /\ []("branchName" \in DOMAIN local =>
          /\ local.prParams.branch = local.branchName
          /\ DOMAIN remote.branches \subseteq {local.branchName}
          /\ \A i \in 1..Len(remote.pulls) :
               /\ remote.pulls[i].head = local.branchName
               /\ remote.pulls[i].base = local.baseBranch)

\* A publish that went through while the clock went on after the name was
\* made: the name of the moment of the pull request would be another one.
C18_Witness ==
  /\ Succeeded
  /\ Len(calls) = 5
  /\ local.branchName # generateBranchName(options.domain, local.productName, clock)
  /\ calls[5].head = calls[2].branchName
  /\ calls[3].branch = calls[2].branchName
  /\ calls[4].branch = calls[2].branchName

\* The place of the candidate's entry in the registry after the upsert: the
\* place of the first match, or the end.
UpsertedAt ==
  LET idx == FindIndex(PreItems, local.entry)
  IN  IF idx >= 1 THEN idx ELSE Len(local.updatedRegistry.items)

\* C19: the content kept for the document is the one read from the file and
\* is not changed afterwards; the entry the upsert leaves in the registry
\* has the path prds/{domain}/{sanitizeFilename(name)}.md; the first write
\* is made to that path, on the new branch, with the content read, and
\* when it has come back the branch holds that content at that path.
C19_DocumentPathAndContent ==
  [][/\ (pc = "read" /\ pc' = "fetch") =>
          /\ local'.prdContent = fs'.content
          /\ local'.prdPath = PrdPath(options.domain, local'.productName)
     /\ "prdContent" \in DOMAIN local =>
          /\ local'.prdContent = local.prdContent
          /\ local'.prdPath = local.prdPath
     /\ (pc = "plan" /\ "updatedRegistry" \in DOMAIN local') =>
          /\ local'.updatedRegistry.items[UpsertedAt'].prd_path
               = PrdPath(options.domain, local.productName)
          /\ local'.updatedRegistry.items[UpsertedAt'].product_name = local.productName
     /\ (pc = "files" /\ local.fileIndex = 1) =>
          LET call == calls'[Len(calls')]
          IN  /\ call.op = "createOrUpdateFile"
              /\ call.branch = local.branchName
              /\ call.path = local.updatedRegistry.items[UpsertedAt].prd_path
              /\ call.path = PrdPath(options.domain, local.productName)
              /\ call.content = Text(local.prdContent)
              /\ pc' = "files" =>
                   remote'.branches[local.branchName][call.path] = Text(local.prdContent)
     /\ (pc = "files" /\ local.fileIndex = 2) =>
          LET written == calls'[Len(calls')].content.value
          IN  /\ calls'[Len(calls')].path = RegistryPath
              /\ written.items[UpsertedAt].prd_path = calls[Len(calls)].path]_vars

\* A publish that went through for a name that is no slug as it stands.
C19_Witness ==
  /\ Succeeded
  /\ Len(calls) = 5
  /\ sanitizeFilename(local.productName) # local.productName
  /\ calls[3].path = PrdPath(options.domain, local.productName)
  /\ calls[3].path = calls[4].content.value.items[UpsertedAt].prd_path
  /\ remote.branches[local.branchName][calls[3].path] = Text(fs.content)

\* The registry fetched is JSON for an object that has no items array.
NoItemsArray ==
  /\ Has("registryContent")
  /\ local.registryContent.given
  /\ local.registryContent.value.kind = "json"
  /\ ~IsNull(local.registryContent.value.value)
  /\ ~HasItemsArray(local.registryContent.value.value)

\* C20 as claimed: when the registry fetched is JSON without an items array,
\* the publish does not fail over it (a failure comes from a later request
\* only) and the registry it goes on with holds the candidate's entry alone.
\* The code does not do this: upsertRegistry takes the items as empty, but
\* line 171 then reads registry.items.some of the registry as fetched.
C20_NoItemsArrayIsEmpty ==
  NoItemsArray =>
    /\ Failed => Len(calls) > 1
    /\ pc # "plan" =>
         /\ Has("updatedRegistry")
         /\ Len(local.updatedRegistry.items) = 1
         /\ \A f \in DOMAIN local.entry :
              local.updatedRegistry.items[1][f] = local.entry[f]

\* The entries of registry.json at the tip of the base branch.
BaseItems ==
  LET c == IF RegistryPath \in DOMAIN remote.base
           THEN remote.base[RegistryPath] ELSE Text(<<>>)
  IN  IF c.kind = "json" /\ ~IsNull(c.value) /\ HasItemsArray(c.value)
      THEN c.value.items ELSE <<>>

\* C21 as claimed: when another publisher's entry was merged into the base
\* branch after this publish read registry.json and before it created its
\* branch, the registry.json this publish has written to its branch (the
\* second write has come back: the pull request is next or was asked for) lists
\* every path the registry.json of the base branch lists (the base branch
\* does not change after the branch is created, so its tip is the one the
\* branch started from).  The code does not do this: the registry written is
\* the one fetched at line 144 with the candidate upserted, and
\* createOrUpdateFile replaces the file the branch took over from the base.
C21_NoEntryLost ==
  (remote.merged /\ (pc = "pr" \/ (Done /\ Len(calls) = 5))) =>
    LET written == remote.branches[local.branchName][RegistryPath].value.items
    IN  \A i \in 1..Len(BaseItems) :
          \E j \in 1..Len(written) : written[j].prd_path = BaseItems[i].prd_path

====
